---- MODULE Spec2Model ----
(***************************************************************************)
(* The Stripe webhook ingestion pipeline of apps/api: the HTTP controller, *)
(* WebhookService (signature check, webhookEvent idempotency record,       *)
(* dispatch, reconciliation handlers, retry loop) and the notification     *)
(* service it calls.  One behaviour follows the deliveries of one provider *)
(* event id; every awaited store operation is one atomic step, so that     *)
(* concurrent deliveries interleave between any two of them.               *)
(***************************************************************************)
EXTENDS Integers, Sequences, FiniteSets, TLC

\* ---- program constants ------------------------------------------------
MAX_RETRY_ATTEMPTS == 3
RETRY_DELAY == 1000
HIGH_VALUE_AMOUNT == 5000
FIRST_MILESTONE == 100000

\* ---- bounds of the model ----------------------------------------------
\* deliveries (HTTP requests) of the event in one behaviour
MaxDeliveries == 2
\* transient failures of awaited store / provider calls in one behaviour
MaxFaults == 1

\* admin requests made in a behaviour, and the last day the clock reaches in them
MaxAdminCalls == 2
MaxClock == 4

Deliveries == 1..MaxDeliveries
Null == "null"

\* ---- the event vocabulary ---------------------------------------------
STRIPE_WEBHOOK_EVENTS ==
  { "customer.subscription.created", "customer.subscription.updated",
    "customer.subscription.deleted", "invoice.payment_succeeded",
    "invoice.payment_failed", "customer.created", "customer.updated",
    "checkout.session.completed" }

\* statusMap of mapStripeStatus: provider status -> local SubscriptionStatus
statusMap ==
  [ s \in { "active", "canceled", "incomplete", "incomplete_expired",
            "past_due", "trialing", "unpaid", "paused" } |->
      CASE s = "active" -> "ACTIVE"
        [] s = "canceled" -> "CANCELED"
        [] s = "incomplete" -> "INCOMPLETE"
        [] s = "incomplete_expired" -> "INCOMPLETE_EXPIRED"
        [] s = "past_due" -> "PAST_DUE"
        [] s = "trialing" -> "TRIALING"
        [] s = "unpaid" -> "UNPAID"
        [] s = "paused" -> "ACTIVE" ]

\* statusMap[stripeStatus] || SubscriptionStatus.INCOMPLETE
mapStripeStatus(stripeStatus) ==
  IF stripeStatus \in DOMAIN statusMap THEN statusMap[stripeStatus]
  ELSE "INCOMPLETE"

\* the provider statuses the spec's mapping table names explicitly
MappedStatuses ==
  { "active", "trialing", "past_due", "unpaid", "canceled", "incomplete",
    "incomplete_expired" }

\* ---- provider events delivered to the endpoint --------------------------
\* One record shape for every event: the fields of event.data.object the
\* handlers read.  status: subscription.status; hasUserId: the customer's
\* metadata.userId is set; priceId: items.data[0].price.id; subRef:
\* invoice.subscription; amount: amount_due / amount_paid; periodEnd:
\* invoice.period_end is set; canceledAt: subscription.canceled_at, a time
\* (0: null); hasEmail: customer.email is set.
Ev(type, status, hasUserId, priceId, subRef, amount, periodEnd, canceledAt, hasEmail) ==
  [ type |-> type, status |-> status, hasUserId |-> hasUserId,
    priceId |-> priceId, subRef |-> subRef, amount |-> amount,
    periodEnd |-> periodEnd, canceledAt |-> canceledAt, hasEmail |-> hasEmail ]

SubEv(type, status, hasUserId, priceId, canceledAt) ==
  Ev(type, status, hasUserId, priceId, Null, 0, FALSE, canceledAt, TRUE)

InvEv(type, subRef, amount, periodEnd) ==
  Ev(type, Null, TRUE, Null, subRef, amount, periodEnd, 0, TRUE)

CustEv(type, hasUserId, hasEmail) ==
  Ev(type, Null, hasUserId, Null, Null, 0, FALSE, 0, hasEmail)

Events ==
  { SubEv("customer.subscription.created", "active", TRUE, "price_pro_monthly", 0),
    SubEv("customer.subscription.created", "active", FALSE, "price_pro_monthly", 0),
    SubEv("customer.subscription.created", "active", TRUE, "price_unlisted", 0),
    SubEv("customer.subscription.created", "bogus", TRUE, "price_pro_monthly", 0),
    SubEv("customer.subscription.updated", "active", TRUE, "price_pro_monthly", 0),
    SubEv("customer.subscription.updated", "past_due", TRUE, "price_pro_monthly", 0),
    SubEv("customer.subscription.updated", "unpaid", TRUE, "price_pro_monthly", 0),
    SubEv("customer.subscription.updated", "paused", TRUE, "price_pro_monthly", 0),
    SubEv("customer.subscription.updated", "bogus", TRUE, "price_pro_monthly", 0),
    SubEv("customer.subscription.deleted", "canceled", TRUE, "price_pro_monthly", 1),
    InvEv("invoice.payment_succeeded", "sub_1", 2999, TRUE),
    InvEv("invoice.payment_succeeded", Null, 2999, TRUE),
    InvEv("invoice.payment_failed", "sub_1", 2999, FALSE),
    InvEv("invoice.payment_failed", "sub_1", 9999, FALSE),
    CustEv("customer.created", TRUE, TRUE),
    CustEv("customer.updated", TRUE, TRUE),
    CustEv("checkout.session.completed", TRUE, TRUE),
    CustEv("charge.refunded", TRUE, TRUE) }

\* ---- rows of the store ---------------------------------------------------
\* webhookEvent row of the event id (model WebhookEvent)
NoRecord == [ exists |-> FALSE, processed |-> FALSE, processingError |-> Null ]

\* Subscription row of stripeSubscriptionId sub_1 (model Subscription)
NoRow ==
  [ exists |-> FALSE, status |-> Null, planId |-> Null, userId |-> Null,
    currentPeriodEnd |-> Null, canceledAt |-> 0, amount |-> 0 ]

SubRow(status, periodEnd, canceledAt) ==
  [ exists |-> TRUE, status |-> status, planId |-> "Pro", userId |-> "u1",
    currentPeriodEnd |-> periodEnd, canceledAt |-> canceledAt, amount |-> 2999 ]

\* SubscriptionPlan rows of the seed, keyed by stripePriceId; storage in GiB
Plans ==
  [ p \in { "price_starter_monthly", "price_pro_monthly", "price_enterprise_monthly" } |->
      CASE p = "price_starter_monthly" ->
             [ name |-> "Starter", maxUsers |-> 1, maxProjects |-> 5, maxStorage |-> 1 ]
        [] p = "price_pro_monthly" ->
             [ name |-> "Pro", maxUsers |-> 10, maxProjects |-> 0, maxStorage |-> 100 ]
        [] p = "price_enterprise_monthly" ->
             [ name |-> "Enterprise", maxUsers |-> 0, maxProjects |-> 0, maxStorage |-> 0 ] ]

\* usage quota limits initializeUsageQuotas asks for; 0: no quota for the metric
Metrics == { "USERS", "PROJECTS", "STORAGE", "API_CALLS" }

apiCallLimit(planName) ==
  IF planName = "STARTER" THEN 10000
  ELSE IF planName = "PRO" THEN 100000
  ELSE 1000000

QuotaLimits(plan) ==
  [ m \in Metrics |->
      CASE m = "USERS" -> plan.maxUsers
        [] m = "PROJECTS" -> plan.maxProjects
        [] m = "STORAGE" -> plan.maxStorage
        [] m = "API_CALLS" -> apiCallLimit(plan.name) ]

NoQuotas == [ m \in Metrics |-> 0 ]

\* ---- notification service ------------------------------------------------
\* A call of the notification service: the channel it uses and its template.
Call(ch, kind) == [ ch |-> ch, kind |-> kind ]

NotifKinds ==
  { "subscription-created", "slack-sales", "payment-succeeded", "payment-failed",
    "slack-billing-alerts", "admin-high-value", "subscription-canceled",
    "slack-churn", "slack-conversions", "admin-about-to-cancel",
    "admin-webhook-error", "admin-revenue", "slack-revenue" }

NoneSent == [ k \in NotifKinds |-> 0 ]

\* (variant: sendEmail without its try/catch)
sendEmail_NoCatch(e) == IF e.sinkThrows THEN "throw" ELSE "ok"

\* sendEmail: try { send } catch { log }: what the caller sees, whatever the
\* sink did ("ok": returned, "throw": the error reached the caller)
sendEmail(e) == "ok"

\* sendSlackNotification: the same try/catch around the Slack post
sendSlackNotification(e) == "ok"

\* whether a call gets as far as the sink: notifyAdmin returns early without
\* ADMIN_EMAIL, sendSlackNotification without SLACK_WEBHOOK_URL
ReachesSink(e, c) ==
  CASE c.ch = "email" -> TRUE
    [] c.ch = "admin" -> e.admin
    [] c.ch = "slack" -> e.slack

CallResult(e, c) ==
  IF ~ReachesSink(e, c) THEN "ok"
  ELSE IF c.ch = "slack" THEN sendSlackNotification(e)
  ELSE sendEmail(e)

\* the awaited calls of a handler, in order; stops at the first that throws.
\* s: the sends that reached the sink so far, per kind
RECURSIVE Notify(_, _, _)
Notify(e, calls, s) ==
  IF calls = <<>> THEN [ sent |-> s, threw |-> FALSE ]
  ELSE LET c == Head(calls)
           s2 == IF ReachesSink(e, c) THEN [ s EXCEPT ![c.kind] = @ + 1 ] ELSE s
       IN IF CallResult(e, c) = "throw" THEN [ sent |-> s2, threw |-> TRUE ]
          ELSE Notify(e, Tail(calls), s2)

\* ---- state -----------------------------------------------------------------
VARIABLES
  env,           \* process.env: secret, admin, slack set; sinkThrows: every send fails
  event,         \* the verified content of the payload being delivered
  webhookEvent,  \* the webhookEvent row of event.id
  subscription,  \* the Subscription row of sub_1
  usageQuota,    \* limitAmount of the UsageQuota rows of the subscription
  user,          \* the User row u1: stripeCustomerId, email snapshot
  sent,          \* sends that reached the email / Slack sink, per kind
  clock,         \* the latest reading of new Date()
  faults,        \* the calls that failed transiently so far, by call site
  dl,            \* per delivery: position and locals of processStripeWebhook
  start,         \* the domain rows when the first delivery arrives (never changes)
  createdAt,     \* createdAt of the webhookEvent row of event.id (0: no row)
  otherEvents,   \* the webhookEvent rows of other event ids
  admin          \* WebhookAdminController: position, calls made, last response

vars == << env, event, webhookEvent, subscription, usageQuota, user, sent, clock, faults, dl, start,
          createdAt, otherEvents, admin >>

given == << env, event, start >>

store == << webhookEvent, subscription, usageQuota, user >>
adminSide == << otherEvents, admin >>
domain == << subscription, usageQuota, user >>

Envs ==
  { [ secret |-> TRUE, admin |-> TRUE, slack |-> TRUE, sinkThrows |-> FALSE ],
    [ secret |-> TRUE, admin |-> TRUE, slack |-> TRUE, sinkThrows |-> TRUE ],
    [ secret |-> TRUE, admin |-> FALSE, slack |-> FALSE, sinkThrows |-> FALSE ],
    [ secret |-> FALSE, admin |-> TRUE, slack |-> TRUE, sinkThrows |-> FALSE ] }

\* the rows earlier events may have left behind
InitStores ==
  { [ subscription |-> NoRow, usageQuota |-> NoQuotas, linked |-> FALSE ],
    [ subscription |-> SubRow("TRIALING", "p0", 0),
      usageQuota |-> QuotaLimits(Plans["price_pro_monthly"]), linked |-> TRUE ],
    [ subscription |-> SubRow("ACTIVE", "p0", 0),
      usageQuota |-> QuotaLimits(Plans["price_pro_monthly"]), linked |-> TRUE ] }

\* rows that deliveries of other events left in the table (createdAt in days)
OlderEvents ==
  { [ id |-> "evt_a", processed |-> TRUE, createdAt |-> 0 ],
    [ id |-> "evt_b", processed |-> FALSE, createdAt |-> 0 ],
    [ id |-> "evt_c", processed |-> TRUE, createdAt |-> 2 ] }

\* no admin request made yet
NoCalls ==
  [ pc |-> "idle", calls |-> 0, op |-> Null, http |-> 0, deletedCount |-> 0,
    olderThanDays |-> 0 ]

NewDelivery ==
  [ pc |-> "idle", sig |-> Null, attempt |-> 0, err |-> Null, lastError |-> Null,
    prev |-> Null, runs |-> 0, hfail |-> 0, delays |-> <<>>, http |-> 0 ]

Init ==
  /\ env \in Envs
  /\ event \in Events
  /\ \E st \in InitStores :
       /\ subscription = st.subscription
       /\ usageQuota = st.usageQuota
       /\ user = [ stripeCustomerId |-> IF st.linked THEN "cus_1" ELSE Null,
                   email |-> "old" ]
  /\ start = [ subscription |-> subscription, usageQuota |-> usageQuota, user |-> user ]
  /\ webhookEvent = NoRecord
  /\ sent = NoneSent
  /\ clock = 2
  /\ faults = << >>
  /\ dl = [ d \in Deliveries |-> NewDelivery ]
  /\ createdAt = 0
  /\ otherEvents = OlderEvents
  /\ admin = NoCalls

\* ---- helpers of the actions ------------------------------------------------
Goto(d, pc) == dl' = [ dl EXCEPT ![d].pc = pc ]

\* createdAt DateTime @default(now()): set when the row is created
Stamped ==
  createdAt' = IF ~webhookEvent.exists /\ webhookEvent'.exists THEN clock ELSE createdAt

\* the awaited call rejected / the handler threw: control reaches the catch of
\* processWebhookAttempt with the error
HandlerPcs == { "handle", "create", "quotas", "notify", "update", "extend" }

Throw(d, msg) ==
  dl' = [ dl EXCEPT ![d].pc = "onError", ![d].err = msg,
                    ![d].hfail = IF dl[d].pc \in HandlerPcs THEN @ + 1 ELSE @ ]

\* a call at the given site may still fail transiently, and does
Fails(site) ==
  /\ Len(faults) < MaxFaults
  /\ faults' = Append(faults, site)

Verified(d) == env.secret /\ dl[d].sig = "valid"

\* ---- WebhookController.handleStripeWebhook ---------------------------------
\* A request arrives; without a stripe-signature header it is answered 400
\* before the service is called.
handleStripeWebhook(d) ==
  /\ dl[d].pc = "idle"
  /\ \A c \in Deliveries : c < d => dl[c].pc # "idle"
  /\ \E sig \in { "valid", "invalid", "missing" } :
       dl' = [ dl EXCEPT ![d] =
                 IF sig = "missing"
                 THEN [ @ EXCEPT !.sig = sig, !.pc = "done", !.http = 400 ]
                 ELSE [ @ EXCEPT !.sig = sig, !.pc = "attempt" ] ]
  /\ UNCHANGED << given, adminSide, createdAt, store, sent, clock, faults >>

\* processStripeWebhook returned: the controller answers 200
Returned(r) == [ r EXCEPT !.pc = "done", !.http = 200, !.err = Null ]

\* ---- WebhookService.processStripeWebhook: the catch of the retry loop ------
\* (variant: the loop bound is attempt <= MAX_RETRY_ATTEMPTS)
processStripeWebhook_OneMore(r, msg) ==
  LET attempt == r.attempt + 1
  IN IF attempt <= MAX_RETRY_ATTEMPTS
     THEN [ r EXCEPT !.attempt = attempt, !.lastError = msg, !.err = Null,
                     !.pc = "attempt",
                     !.delays = Append(@, RETRY_DELAY * attempt) ]
     ELSE [ r EXCEPT !.attempt = attempt, !.lastError = msg, !.err = Null,
                     !.pc = "done", !.http = 400 ]

\* (variant: the sleep is RETRY_DELAY, not multiplied by the attempt)
processStripeWebhook_FixedDelay(r, msg) ==
  LET attempt == r.attempt + 1
  IN IF attempt < MAX_RETRY_ATTEMPTS
     THEN [ r EXCEPT !.attempt = attempt, !.lastError = msg, !.err = Null,
                     !.pc = "attempt",
                     !.delays = Append(@, RETRY_DELAY) ]
     ELSE [ r EXCEPT !.attempt = attempt, !.lastError = msg, !.err = Null,
                     !.pc = "done", !.http = 400 ]

\* (variant: the loop ends without throwing lastError)
processStripeWebhook_NoThrow(r, msg) ==
  LET attempt == r.attempt + 1
  IN IF attempt < MAX_RETRY_ATTEMPTS
     THEN [ r EXCEPT !.attempt = attempt, !.lastError = msg, !.err = Null,
                     !.pc = "attempt",
                     !.delays = Append(@, RETRY_DELAY * attempt) ]
     ELSE [ r EXCEPT !.attempt = attempt, !.lastError = msg, !.err = Null,
                     !.pc = "done", !.http = 200 ]

\* r: the delivery's locals, msg: the error processWebhookAttempt threw.
\* Sleeps RETRY_DELAY * attempt before the next attempt, or throws lastError,
\* which the controller answers with 400.
processStripeWebhook(r, msg) ==
  LET attempt == r.attempt + 1
  IN IF attempt < MAX_RETRY_ATTEMPTS
     THEN [ r EXCEPT !.attempt = attempt, !.lastError = msg, !.err = Null,
                     !.pc = "attempt",
                     !.delays = Append(@, RETRY_DELAY * attempt) ]
     ELSE [ r EXCEPT !.attempt = attempt, !.lastError = msg, !.err = Null,
                     !.pc = "done", !.http = 400 ]

\* ---- WebhookService.processWebhookAttempt ----------------------------------
\* (variant: the attempt does not look at existingEvent.processed)
processWebhookAttempt_NoShortCut(d) ==
  /\ dl[d].pc = "attempt"
  /\ IF ~env.secret THEN Throw(d, "SecretMissing")
     ELSE IF dl[d].sig # "valid" THEN Throw(d, "SignatureError")
     ELSE Goto(d, "upsert")
  /\ UNCHANGED << given, adminSide, createdAt, store, sent, clock, faults >>

\* secret check, constructEvent, findUnique of the webhookEvent row and the
\* short cut for an event already processed
processWebhookAttempt(d) ==
  /\ dl[d].pc = "attempt"
  /\ IF ~env.secret THEN Throw(d, "SecretMissing")
     ELSE IF dl[d].sig # "valid" THEN Throw(d, "SignatureError")
     ELSE IF webhookEvent.exists /\ webhookEvent.processed
          THEN dl' = [ dl EXCEPT ![d] = Returned(@) ]
          ELSE Goto(d, "upsert")
  /\ UNCHANGED << given, adminSide, createdAt, store, sent, clock, faults >>

\* ---- WebhookService.processWebhookEventFlow --------------------------------
\* the upsert at the start of an attempt; handleWebhookEvent is called next
recordAttemptStart(d) ==
  /\ dl[d].pc = "upsert"
  /\ webhookEvent' =
       IF webhookEvent.exists
       THEN [ webhookEvent EXCEPT !.processed = FALSE, !.processingError = Null ]
       ELSE [ exists |-> TRUE, processed |-> FALSE, processingError |-> Null ]
  /\ dl' = [ dl EXCEPT ![d].pc = "handle", ![d].runs = @ + 1 ]
  /\ UNCHANGED << given, adminSide, domain, sent, clock, faults >>
  /\ Stamped

\* the update after the handler returned, then notifyWebhookSuccess (a log
\* line) and the return to the caller
markProcessed(d) ==
  /\ dl[d].pc = "mark"
  /\ IF webhookEvent.exists
     THEN /\ webhookEvent' = [ webhookEvent EXCEPT !.processed = TRUE ]
          /\ dl' = [ dl EXCEPT ![d] = Returned(@) ]
     ELSE /\ Throw(d, "RecordNotFound")
          /\ UNCHANGED webhookEvent
  /\ UNCHANGED << given, adminSide, createdAt, domain, sent, clock, faults >>

\* ---- WebhookService.handleWebhookProcessingError ---------------------------
\* what the failure upsert writes for error message msg
recordFailure(rec, msg) ==
  IF rec.exists
  THEN [ rec EXCEPT !.processingError = msg ]
  ELSE [ exists |-> TRUE, processed |-> FALSE, processingError |-> msg ]

\* (variant: the failure is recorded from the payload as received, without a
\* second constructEvent)
handleWebhookProcessingError_Unverified(d) ==
  /\ dl[d].pc = "onError"
  /\ webhookEvent' = recordFailure(webhookEvent, dl[d].err)
  /\ sent' = Notify(env, << Call("admin", "admin-webhook-error") >>, sent).sent
  /\ dl' = [ dl EXCEPT ![d] = processStripeWebhook(@, dl[d].err) ]
  /\ UNCHANGED << given, adminSide, domain, clock, faults >>
  /\ Stamped

\* (variant: the failure is written only once the attempts are used up, after
\* the delays)
handleWebhookProcessingError_AfterLoop(d) ==
  /\ dl[d].pc = "onError"
  /\ IF Verified(d) /\ dl[d].attempt + 1 >= MAX_RETRY_ATTEMPTS
     THEN /\ webhookEvent' = recordFailure(webhookEvent, dl[d].err)
          /\ sent' = Notify(env, << Call("admin", "admin-webhook-error") >>, sent).sent
     ELSE UNCHANGED << webhookEvent, sent >>
  /\ dl' = [ dl EXCEPT ![d] = processStripeWebhook(@, dl[d].err) ]
  /\ UNCHANGED << given, adminSide, domain, clock, faults >>
  /\ Stamped

\* (variant: an error thrown while recording the failure reaches the loop in
\* place of the error of the attempt)
handleWebhookProcessingError_Propagates(d) ==
  /\ dl[d].pc = "onError"
  /\ \/ /\ Verified(d)
        /\ webhookEvent' = recordFailure(webhookEvent, dl[d].err)
        /\ sent' = Notify(env, << Call("admin", "admin-webhook-error") >>, sent).sent
        /\ UNCHANGED faults
     \/ /\ Verified(d)
        /\ Fails("record")
        /\ UNCHANGED << webhookEvent, sent >>
     \/ /\ ~Verified(d)
        /\ UNCHANGED << webhookEvent, sent, faults >>
  /\ dl' = [ dl EXCEPT ![d] =
                processStripeWebhook(@, IF faults' # faults THEN "DbError"
                                        ELSE dl[d].err) ]
  /\ UNCHANGED << given, adminSide, domain, clock >>
  /\ Stamped

\* constructEvent again, the failure upsert and notifyWebhookError, all inside
\* a try whose catch only logs; then the error is rethrown to the retry loop
handleWebhookProcessingError(d) ==
  /\ dl[d].pc = "onError"
  /\ \/ /\ Verified(d)
        /\ webhookEvent' = recordFailure(webhookEvent, dl[d].err)
        /\ sent' = Notify(env, << Call("admin", "admin-webhook-error") >>, sent).sent
        /\ UNCHANGED faults
     \/ /\ Verified(d)
        /\ Fails("record")
        /\ UNCHANGED << webhookEvent, sent >>
     \/ /\ ~Verified(d)
        /\ UNCHANGED << webhookEvent, sent, faults >>
  /\ dl' = [ dl EXCEPT ![d] = processStripeWebhook(@, dl[d].err) ]
  /\ UNCHANGED << given, adminSide, domain, clock >>
  /\ Stamped

\* ---- WebhookService.handleWebhookEvent: the handlers -----------------------
\* checkout.session.completed only logs; a type outside STRIPE_WEBHOOK_EVENTS
\* takes the default branch, which only logs
handleCheckoutSessionCompleted(d) ==
  /\ dl[d].pc = "handle"
  /\ event.type = "checkout.session.completed"
  /\ Goto(d, "mark")
  /\ UNCHANGED << given, adminSide, createdAt, store, sent, clock, faults >>

\* (variant: the default branch throws)
handleUnhandledType_Throws(d) ==
  /\ dl[d].pc = "handle"
  /\ event.type \notin STRIPE_WEBHOOK_EVENTS
  /\ Throw(d, "UnhandledType")
  /\ UNCHANGED << given, adminSide, createdAt, store, sent, clock, faults >>

handleUnhandledType(d) ==
  /\ dl[d].pc = "handle"
  /\ event.type \notin STRIPE_WEBHOOK_EVENTS
  /\ Goto(d, "mark")
  /\ UNCHANGED << given, adminSide, createdAt, store, sent, clock, faults >>

\* -- customer.subscription.created
\* validateSubscriptionData: customers.retrieve, the userId of its metadata,
\* the price id and the plan of that price
validateSubscriptionData(d) ==
  /\ dl[d].pc = "handle"
  /\ event.type = "customer.subscription.created"
  /\ IF ~event.hasUserId THEN Throw(d, "NoUserId")
     ELSE IF event.priceId = Null THEN Throw(d, "NoPriceId")
     ELSE IF event.priceId \notin DOMAIN Plans THEN Throw(d, "NoPlan")
     ELSE Goto(d, "create")
  /\ UNCHANGED << given, adminSide, createdAt, store, sent, clock, faults >>

\* createDatabaseSubscription: prisma.subscription.create; stripeSubscriptionId
\* is unique, so a second create of the same id is rejected
createDatabaseSubscription(d) ==
  /\ dl[d].pc = "create"
  /\ IF subscription.exists
     THEN /\ Throw(d, "UniqueConstraint")
          /\ UNCHANGED subscription
     ELSE /\ subscription' =
               [ exists |-> TRUE, status |-> mapStripeStatus(event.status),
                 planId |-> Plans[event.priceId].name, userId |-> "u1",
                 currentPeriodEnd |-> "p1", canceledAt |-> 0, amount |-> 2999 ]
          /\ Goto(d, "quotas")
  /\ UNCHANGED << given, adminSide, createdAt, webhookEvent, usageQuota, user, sent, clock, faults >>

\* the quota rows after the updateQuota upserts of the metrics in ms
WithQuotas(q, limits, ms) ==
  [ m \in Metrics |-> IF m \in ms THEN limits[m] ELSE q[m] ]

\* (variant: only the API_CALLS quota is written)
initializeUsageQuotas_ApiCallsOnly(d) ==
  /\ dl[d].pc = "quotas"
  /\ usageQuota' = WithQuotas(usageQuota, QuotaLimits(Plans[event.priceId]), { "API_CALLS" })
  /\ Goto(d, "notify")
  /\ UNCHANGED << given, adminSide, createdAt, webhookEvent, subscription, user, sent, clock, faults >>

\* initializeUsageQuotas: one updateQuota per limit the plan has, and always
\* API_CALLS, awaited together; a rejection is logged and not rethrown, and
\* the upserts that did not fail are kept
initializeUsageQuotas(d) ==
  /\ dl[d].pc = "quotas"
  /\ LET limits == QuotaLimits(Plans[event.priceId])
         wanted == { m \in Metrics : limits[m] # 0 }
     IN \/ /\ usageQuota' = WithQuotas(usageQuota, limits, wanted)
           /\ UNCHANGED faults
        \/ /\ Fails("quotas")
           /\ \E ms \in SUBSET wanted :
                /\ ms # wanted
                /\ usageQuota' = WithQuotas(usageQuota, limits, ms)
  /\ Goto(d, "notify")
  /\ UNCHANGED << given, adminSide, createdAt, webhookEvent, subscription, user, sent, clock >>

\* the sum checkRevenueMilestone compares with its milestones
monthlyRevenue ==
  IF subscription.exists /\ subscription.status \in { "ACTIVE", "TRIALING" }
  THEN subscription.amount ELSE 0

\* sendSubscriptionNotifications, then checkRevenueMilestone, whose own
\* failures are logged and not rethrown
sendSubscriptionNotifications(d) ==
  /\ dl[d].pc = "notify"
  /\ LET r1 == Notify(env, << Call("email", "subscription-created"),
                             Call("slack", "slack-sales") >>, sent)
         r2 == Notify(env, IF monthlyRevenue >= FIRST_MILESTONE
                           THEN << Call("admin", "admin-revenue"),
                                   Call("slack", "slack-revenue") >>
                           ELSE << >>, r1.sent)
     IN IF r1.threw
        THEN /\ sent' = r1.sent
             /\ Throw(d, "SinkError")
        ELSE /\ sent' = r2.sent
             /\ Goto(d, "mark")
  /\ UNCHANGED << given, adminSide, createdAt, store, clock, faults >>

\* -- customer.subscription.updated
\* (variant: no return when findUnique finds no row)
handleSubscriptionUpdated_NoCheck(d) ==
  /\ dl[d].pc = "handle"
  /\ event.type = "customer.subscription.updated"
  /\ dl' = [ dl EXCEPT ![d].pc = "update", ![d].prev = subscription.status ]
  /\ UNCHANGED << given, adminSide, createdAt, store, sent, clock, faults >>

\* findUnique by stripeSubscriptionId; no row: a warning and return
handleSubscriptionUpdated(d) ==
  /\ dl[d].pc = "handle"
  /\ event.type = "customer.subscription.updated"
  /\ IF ~subscription.exists
     THEN Goto(d, "mark")
     ELSE dl' = [ dl EXCEPT ![d].pc = "update", ![d].prev = subscription.status ]
  /\ UNCHANGED << given, adminSide, createdAt, store, sent, clock, faults >>

\* handleStatusChange: the calls made for previousStatus -> newStatus
handleStatusChange(previousStatus, newStatus) ==
  (IF previousStatus = "TRIALING" /\ newStatus = "ACTIVE"
   THEN << Call("slack", "slack-conversions") >> ELSE << >>)
  \o (IF newStatus = "PAST_DUE"
      THEN << Call("slack", "slack-billing-alerts") >> ELSE << >>)
  \o (IF newStatus = "UNPAID"
      THEN << Call("slack", "slack-billing-alerts"),
              Call("admin", "admin-about-to-cancel") >> ELSE << >>)

\* (variant: handleStatusChange is called without comparing the statuses)
applySubscriptionUpdate_NoCompare(d) ==
  /\ dl[d].pc = "update"
  /\ LET newStatus == mapStripeStatus(event.status)
         r == Notify(env, handleStatusChange(dl[d].prev, newStatus), sent)
     IN IF ~subscription.exists
        THEN /\ Throw(d, "RecordNotFound")
             /\ UNCHANGED << subscription, sent >>
        ELSE /\ subscription' =
                  [ subscription EXCEPT !.status = newStatus,
                                        !.currentPeriodEnd = "p1",
                                        !.canceledAt = event.canceledAt ]
             /\ sent' = r.sent
             /\ IF r.threw THEN Throw(d, "SinkError") ELSE Goto(d, "mark")
  /\ UNCHANGED << given, adminSide, createdAt, webhookEvent, usageQuota, user, clock, faults >>

\* prisma.subscription.update with the mapped status, then handleStatusChange
\* if the status read before differs from it
applySubscriptionUpdate(d) ==
  /\ dl[d].pc = "update"
  /\ LET previousStatus == dl[d].prev
         newStatus == mapStripeStatus(event.status)
         r == Notify(env, IF previousStatus # newStatus
                          THEN handleStatusChange(previousStatus, newStatus)
                          ELSE << >>, sent)
     IN IF ~subscription.exists
        THEN /\ Throw(d, "RecordNotFound")
             /\ UNCHANGED << subscription, sent >>
        ELSE /\ subscription' =
                  [ subscription EXCEPT !.status = newStatus,
                                        !.currentPeriodEnd = "p1",
                                        !.canceledAt = event.canceledAt ]
             /\ sent' = r.sent
             /\ IF r.threw THEN Throw(d, "SinkError") ELSE Goto(d, "mark")
  /\ UNCHANGED << given, adminSide, createdAt, webhookEvent, usageQuota, user, clock, faults >>

\* (variant: a deleted event for a subscription with no local row returns)
handleSubscriptionDeleted_NoRowIsNoOp(d) ==
  /\ dl[d].pc = "handle"
  /\ event.type = "customer.subscription.deleted"
  /\ LET r == Notify(env, << Call("email", "subscription-canceled"),
                            Call("slack", "slack-churn") >>, sent)
     IN IF ~subscription.exists
        THEN /\ Goto(d, "mark")
             /\ UNCHANGED << subscription, sent, clock >>
        ELSE /\ \E now \in { clock, clock + 1 } :
                  /\ clock' = now
                  /\ subscription' =
                       [ subscription EXCEPT !.status = "CANCELED",
                                             !.canceledAt = now ]
             /\ sent' = r.sent
             /\ IF r.threw THEN Throw(d, "SinkError") ELSE Goto(d, "mark")
  /\ UNCHANGED << given, adminSide, createdAt, webhookEvent, usageQuota, user, faults >>

\* -- customer.subscription.deleted
\* prisma.subscription.update to CANCELED with canceledAt = new Date() (the
\* time read is the latest reading or later), then the cancellation calls
handleSubscriptionDeleted(d) ==
  /\ dl[d].pc = "handle"
  /\ event.type = "customer.subscription.deleted"
  /\ LET r == Notify(env, << Call("email", "subscription-canceled"),
                            Call("slack", "slack-churn") >>, sent)
     IN IF ~subscription.exists
        THEN /\ Throw(d, "RecordNotFound")
             /\ UNCHANGED << subscription, sent, clock >>
        ELSE /\ \E now \in { clock, clock + 1 } :
                  /\ clock' = now
                  /\ subscription' =
                       [ subscription EXCEPT !.status = "CANCELED",
                                             !.canceledAt = now ]
             /\ sent' = r.sent
             /\ IF r.threw THEN Throw(d, "SinkError") ELSE Goto(d, "mark")
  /\ UNCHANGED << given, adminSide, createdAt, webhookEvent, usageQuota, user, faults >>

\* -- invoice.payment_succeeded
\* no invoice.subscription or no local row: return; else the payment
\* confirmation is sent, and the period end is updated after it
handleInvoicePaymentSucceeded(d) ==
  /\ dl[d].pc = "handle"
  /\ event.type = "invoice.payment_succeeded"
  /\ LET r == Notify(env, << Call("email", "payment-succeeded") >>, sent)
     IN IF event.subRef = Null \/ ~subscription.exists
        THEN /\ Goto(d, "mark")
             /\ UNCHANGED sent
        ELSE /\ sent' = r.sent
             /\ IF r.threw THEN Throw(d, "SinkError")
                ELSE IF event.periodEnd THEN Goto(d, "extend")
                ELSE Goto(d, "mark")
  /\ UNCHANGED << given, adminSide, createdAt, store, clock, faults >>

\* prisma.subscription.update of currentPeriodEnd from invoice.period_end
extendCurrentPeriod(d) ==
  /\ dl[d].pc = "extend"
  /\ IF ~subscription.exists
     THEN /\ Throw(d, "RecordNotFound")
          /\ UNCHANGED subscription
     ELSE /\ subscription' = [ subscription EXCEPT !.currentPeriodEnd = "p1" ]
          /\ Goto(d, "mark")
  /\ UNCHANGED << given, adminSide, createdAt, webhookEvent, usageQuota, user, sent, clock, faults >>

\* (variant: the notifications are sent whether or not a local row was found)
handleInvoicePaymentFailed_NoRowCheck(d) ==
  /\ dl[d].pc = "handle"
  /\ event.type = "invoice.payment_failed"
  /\ LET r == Notify(env, << Call("email", "payment-failed"),
                            Call("slack", "slack-billing-alerts") >>
                          \o (IF event.amount >= HIGH_VALUE_AMOUNT
                              THEN << Call("admin", "admin-high-value") >>
                              ELSE << >>), sent)
     IN IF event.subRef = Null
        THEN /\ Goto(d, "mark")
             /\ UNCHANGED sent
        ELSE /\ sent' = r.sent
             /\ IF r.threw THEN Throw(d, "SinkError") ELSE Goto(d, "mark")
  /\ UNCHANGED << given, adminSide, createdAt, store, clock, faults >>

\* -- invoice.payment_failed
handleInvoicePaymentFailed(d) ==
  /\ dl[d].pc = "handle"
  /\ event.type = "invoice.payment_failed"
  /\ LET r == Notify(env, << Call("email", "payment-failed"),
                            Call("slack", "slack-billing-alerts") >>
                          \o (IF event.amount >= HIGH_VALUE_AMOUNT
                              THEN << Call("admin", "admin-high-value") >>
                              ELSE << >>), sent)
     IN IF event.subRef = Null \/ ~subscription.exists
        THEN /\ Goto(d, "mark")
             /\ UNCHANGED sent
        ELSE /\ sent' = r.sent
             /\ IF r.threw THEN Throw(d, "SinkError") ELSE Goto(d, "mark")
  /\ UNCHANGED << given, adminSide, createdAt, store, clock, faults >>

\* -- customer.created: prisma.user.update of stripeCustomerId
handleCustomerCreated(d) ==
  /\ dl[d].pc = "handle"
  /\ event.type = "customer.created"
  /\ user' = IF event.hasUserId
             THEN [ user EXCEPT !.stripeCustomerId = "cus_1" ] ELSE user
  /\ Goto(d, "mark")
  /\ UNCHANGED << given, adminSide, createdAt, webhookEvent, subscription, usageQuota, sent, clock, faults >>

\* -- customer.updated: prisma.user.updateMany where stripeCustomerId matches
handleCustomerUpdated(d) ==
  /\ dl[d].pc = "handle"
  /\ event.type = "customer.updated"
  /\ user' = IF event.hasUserId /\ event.hasEmail /\ user.stripeCustomerId = "cus_1"
             THEN [ user EXCEPT !.email = "new" ] ELSE user
  /\ Goto(d, "mark")
  /\ UNCHANGED << given, adminSide, createdAt, webhookEvent, subscription, usageQuota, sent, clock, faults >>

\* ---- transient failures -------------------------------------------------
\* the delivery is about to await a call of the store or of the provider
AwaitsCall(d) ==
  \/ dl[d].pc = "attempt" /\ Verified(d)
  \/ dl[d].pc \in { "upsert", "mark", "create", "update", "extend" }
  \/ /\ dl[d].pc = "handle"
     /\ \/ event.type \in { "customer.subscription.created",
                           "customer.subscription.updated",
                           "customer.subscription.deleted" }
        \/ event.type \in { "invoice.payment_succeeded", "invoice.payment_failed" }
             /\ event.subRef # Null
        \/ event.type = "customer.created" /\ event.hasUserId
        \/ event.type = "customer.updated" /\ event.hasUserId /\ event.hasEmail

\* the awaited call rejects (connection lost, timeout): nothing is written and
\* the error reaches the catch of processWebhookAttempt
TransientFailure(d) ==
  /\ AwaitsCall(d)
  /\ Fails(IF dl[d].pc \in HandlerPcs THEN "handler" ELSE dl[d].pc)
  /\ Throw(d, "DbError")
  /\ UNCHANGED << given, adminSide, createdAt, store, sent, clock >>

\* ---- the specification ------------------------------------------------------
\* a step of delivery d
Deliver(d) ==
    \/ handleStripeWebhook(d)
    \/ processWebhookAttempt(d)
    \/ recordAttemptStart(d)
    \/ markProcessed(d)
    \/ handleWebhookProcessingError(d)
    \/ validateSubscriptionData(d)
    \/ createDatabaseSubscription(d)
    \/ initializeUsageQuotas(d)
    \/ sendSubscriptionNotifications(d)
    \/ handleSubscriptionUpdated(d)
    \/ applySubscriptionUpdate(d)
    \/ handleSubscriptionDeleted(d)
    \/ handleInvoicePaymentSucceeded(d)
    \/ extendCurrentPeriod(d)
    \/ handleInvoicePaymentFailed(d)
    \/ handleCustomerCreated(d)
    \/ handleCustomerUpdated(d)
    \/ handleCheckoutSessionCompleted(d)
    \/ handleUnhandledType(d)
    \/ TransientFailure(d)

\* requests are served concurrently: any delivery in flight may take the next step
Next == \E d \in Deliveries : Deliver(d)

Spec == Init /\ [][Next]_vars

\* one request at a time: a delivery arrives only after the others have been
\* answered (redelivery by the sender after a response)
SeqNext ==
  \E d \in Deliveries :
    /\ \A c \in Deliveries \ { d } : dl[c].pc \in { "idle", "done" }
    /\ Deliver(d)

SeqSpec == Init /\ [][SeqNext]_vars

\* every awaited call returns or throws: a request in flight takes its next step
InFlight(d) == dl[d].pc \notin { "idle", "done" } /\ Deliver(d)

FairSpec == Spec /\ \A d \in Deliveries : WF_vars(InFlight(d))

\* ---- apps/api/src/services/webhook.service.ts -------------------------------
\* The WebhookService the controller imports from ../services/webhook.service:
\* one attempt per request, no notifications, no usage quotas.
\* Its mapStripeStatus has no entry for paused.
Legacy_mapStripeStatus(stripeStatus) ==
  IF stripeStatus \in DOMAIN statusMap \ { "paused" } THEN statusMap[stripeStatus]
  ELSE "INCOMPLETE"

\* secret check, constructEvent, findUnique and the return for an event
\* already processed
Legacy_processStripeWebhook(d) ==
  /\ dl[d].pc = "attempt"
  /\ IF ~env.secret THEN Throw(d, "SecretMissing")
     ELSE IF dl[d].sig # "valid" THEN Throw(d, "SignatureError")
     ELSE IF webhookEvent.exists /\ webhookEvent.processed
          THEN dl' = [ dl EXCEPT ![d] = Returned(@) ]
          ELSE Goto(d, "upsert")
  /\ UNCHANGED << given, adminSide, createdAt, store, sent, clock, faults >>

\* the upsert before the handler: update { processed: false }
Legacy_storeWebhookEvent(d) ==
  /\ dl[d].pc = "upsert"
  /\ webhookEvent' =
       IF webhookEvent.exists
       THEN [ webhookEvent EXCEPT !.processed = FALSE ]
       ELSE [ exists |-> TRUE, processed |-> FALSE, processingError |-> Null ]
  /\ dl' = [ dl EXCEPT ![d].pc = "handle", ![d].runs = @ + 1 ]
  /\ UNCHANGED << given, adminSide, domain, sent, clock, faults >>
  /\ Stamped

\* the catch: constructEvent again and the failure upsert, inside a try whose
\* catch only logs; then the error is rethrown and the controller answers 400
Legacy_storeWebhookError(d) ==
  /\ dl[d].pc = "onError"
  /\ \/ /\ Verified(d)
        /\ webhookEvent' = recordFailure(webhookEvent, dl[d].err)
        /\ UNCHANGED faults
     \/ /\ Verified(d)
        /\ Fails("record")
        /\ UNCHANGED webhookEvent
     \/ /\ ~Verified(d)
        /\ UNCHANGED << webhookEvent, faults >>
  /\ dl' = [ dl EXCEPT ![d].pc = "done", ![d].http = 400,
                       ![d].attempt = 1, ![d].lastError = dl[d].err,
                       ![d].err = Null ]
  /\ UNCHANGED << given, adminSide, domain, sent, clock >>
  /\ Stamped

\* handleSubscriptionCreated: no userId is a warning and a return
Legacy_handleSubscriptionCreated(d) ==
  /\ dl[d].pc = "handle"
  /\ event.type = "customer.subscription.created"
  /\ IF ~event.hasUserId THEN Goto(d, "mark")
     ELSE IF event.priceId = Null THEN Throw(d, "NoPriceId")
     ELSE IF event.priceId \notin DOMAIN Plans THEN Throw(d, "NoPlan")
     ELSE Goto(d, "create")
  /\ UNCHANGED << given, adminSide, createdAt, store, sent, clock, faults >>

\* its prisma.subscription.create
Legacy_createSubscription(d) ==
  /\ dl[d].pc = "create"
  /\ IF subscription.exists
     THEN /\ Throw(d, "UniqueConstraint")
          /\ UNCHANGED subscription
     ELSE /\ subscription' =
               [ exists |-> TRUE, status |-> Legacy_mapStripeStatus(event.status),
                 planId |-> Plans[event.priceId].name, userId |-> "u1",
                 currentPeriodEnd |-> "p1", canceledAt |-> 0, amount |-> 2999 ]
          /\ Goto(d, "mark")
  /\ UNCHANGED << given, adminSide, createdAt, webhookEvent, usageQuota, user, sent, clock, faults >>

\* handleSubscriptionUpdated: prisma.subscription.update, which rejects when
\* there is no row
Legacy_handleSubscriptionUpdated(d) ==
  /\ dl[d].pc = "handle"
  /\ event.type = "customer.subscription.updated"
  /\ IF ~subscription.exists
     THEN /\ Throw(d, "RecordNotFound")
          /\ UNCHANGED subscription
     ELSE /\ subscription' =
               [ subscription EXCEPT !.status = Legacy_mapStripeStatus(event.status),
                                     !.currentPeriodEnd = "p1",
                                     !.canceledAt = event.canceledAt ]
          /\ Goto(d, "mark")
  /\ UNCHANGED << given, adminSide, createdAt, webhookEvent, usageQuota, user, sent, clock, faults >>

\* handleSubscriptionDeleted: update to CANCELED with canceledAt = new Date()
Legacy_handleSubscriptionDeleted(d) ==
  /\ dl[d].pc = "handle"
  /\ event.type = "customer.subscription.deleted"
  /\ IF ~subscription.exists
     THEN /\ Throw(d, "RecordNotFound")
          /\ UNCHANGED << subscription, clock >>
     ELSE /\ \E now \in { clock, clock + 1 } :
               /\ clock' = now
               /\ subscription' =
                    [ subscription EXCEPT !.status = "CANCELED", !.canceledAt = now ]
          /\ Goto(d, "mark")
  /\ UNCHANGED << given, adminSide, createdAt, webhookEvent, usageQuota, user, sent, faults >>

\* handleInvoicePaymentSucceeded: updateMany of the rows of
\* invoice.subscription to status ACTIVE
Legacy_handleInvoicePaymentSucceeded(d) ==
  /\ dl[d].pc = "handle"
  /\ event.type = "invoice.payment_succeeded"
  /\ subscription' =
       IF event.subRef # Null /\ subscription.exists
       THEN [ subscription EXCEPT !.status = "ACTIVE" ] ELSE subscription
  /\ Goto(d, "mark")
  /\ UNCHANGED << given, adminSide, createdAt, webhookEvent, usageQuota, user, sent, clock, faults >>

\* handleInvoicePaymentFailed: updateMany to status PAST_DUE
Legacy_handleInvoicePaymentFailed(d) ==
  /\ dl[d].pc = "handle"
  /\ event.type = "invoice.payment_failed"
  /\ subscription' =
       IF event.subRef # Null /\ subscription.exists
       THEN [ subscription EXCEPT !.status = "PAST_DUE" ] ELSE subscription
  /\ Goto(d, "mark")
  /\ UNCHANGED << given, adminSide, createdAt, webhookEvent, usageQuota, user, sent, clock, faults >>

\* a step of delivery d through this service; the customer handlers, the
\* checkout handler, the default branch and the update to processed = true
\* read the same in both services
Legacy_Deliver(d) ==
    \/ handleStripeWebhook(d)
    \/ Legacy_processStripeWebhook(d)
    \/ Legacy_storeWebhookEvent(d)
    \/ markProcessed(d)
    \/ Legacy_storeWebhookError(d)
    \/ Legacy_handleSubscriptionCreated(d)
    \/ Legacy_createSubscription(d)
    \/ Legacy_handleSubscriptionUpdated(d)
    \/ Legacy_handleSubscriptionDeleted(d)
    \/ Legacy_handleInvoicePaymentSucceeded(d)
    \/ Legacy_handleInvoicePaymentFailed(d)
    \/ handleCustomerCreated(d)
    \/ handleCustomerUpdated(d)
    \/ handleCheckoutSessionCompleted(d)
    \/ handleUnhandledType(d)
    \/ TransientFailure(d)

LegacyNext == \E d \in Deliveries : Legacy_Deliver(d)

LegacySpec == Init /\ [][LegacyNext]_vars

\* ---- WebhookAdminController and WebhookService.cleanupOldWebhookEvents ------
\* parseInt(req.query.days) || 30: no parameter, no number and 0 give the default
DefaultDays == 30
Queries == { Null, "0", "1", "soon" }
parseInt == [ q \in { "0", "1" } |-> IF q = "0" THEN 0 ELSE 1 ]
parseDays(q) ==
  IF q \in DOMAIN parseInt /\ parseInt[q] # 0 THEN parseInt[q] ELSE DefaultDays

\* cutoffDate.setDate(cutoffDate.getDate() - olderThanDays)
cutoffDate(now, olderThanDays) == now - olderThanDays

\* the where clause of the deleteMany
\* (variant: the filter is on createdAt alone)
Expired_AnyState(processed, created, cutoff) == created < cutoff

Expired(processed, created, cutoff) == created < cutoff /\ processed

Respond(op, http, count, days) ==
  admin' = [ pc |-> "idle", calls |-> admin.calls + 1, op |-> op, http |-> http,
             deletedCount |-> count, olderThanDays |-> days ]

\* DELETE cleanup: cleanupOldWebhookEvents(days) and the response with its count
cleanupOldEvents ==
  /\ admin.pc = "idle" /\ admin.calls < MaxAdminCalls
  /\ \E q \in Queries, now \in { clock, clock + 1 } :
       /\ now <= MaxClock
       /\ clock' = now
       /\ LET days == parseDays(q)
              cutoff == cutoffDate(now, days)
              mine == webhookEvent.exists
                      /\ Expired(webhookEvent.processed, createdAt, cutoff)
              gone == { r \in otherEvents : Expired(r.processed, r.createdAt, cutoff) }
          IN /\ webhookEvent' = IF mine THEN NoRecord ELSE webhookEvent
             /\ createdAt' = IF mine THEN 0 ELSE createdAt
             /\ otherEvents' = otherEvents \ gone
             /\ Respond("cleanup", 200,
                        Cardinality(gone) + (IF mine THEN 1 ELSE 0), days)
  /\ UNCHANGED << given, domain, sent, faults, dl >>

\* POST retry: findUnique; 404 without a row, 400 for a processed one
retryWebhookEvent ==
  /\ admin.pc = "idle" /\ admin.calls < MaxAdminCalls
  /\ IF ~webhookEvent.exists THEN Respond("retry", 404, 0, 0)
     ELSE IF webhookEvent.processed THEN Respond("retry", 400, 0, 0)
     ELSE admin' = [ admin EXCEPT !.pc = "retry" ]
  /\ UNCHANGED << given, store, sent, clock, faults, dl, createdAt, otherEvents >>

\* its update { processingError: null, processed: false } and the response
\* "marked for retry"; an update of a row that is gone throws: 500
markForRetry ==
  /\ admin.pc = "retry"
  /\ IF webhookEvent.exists
     THEN /\ webhookEvent' = [ webhookEvent EXCEPT !.processingError = Null,
                                                   !.processed = FALSE ]
          /\ Respond("retry", 200, 0, 0)
     ELSE /\ Respond("retry", 500, 0, 0)
          /\ UNCHANGED webhookEvent
  /\ UNCHANGED << given, domain, sent, clock, faults, dl, createdAt, otherEvents >>

Admin == cleanupOldEvents \/ retryWebhookEvent \/ markForRetry

\* deliveries one at a time, with the admin requests in between their steps
AdminNext == SeqNext \/ Admin

AdminSpec == Init /\ [][AdminNext]_vars

\* ==== properties ==============================================================
Done(d) == dl[d].pc = "done"

\* every request that arrived has been answered
Quiescent == \A d \in Deliveries : dl[d].pc \in { "idle", "done" }

\* no delivery arrived after d
Latest(d) == \A c \in Deliveries : c > d => dl[c].pc = "idle"

\* C1: when the webhookEvent row of the event has processed = true, an attempt
\* of a verified delivery of that event returns success at once: the handler
\* is not invoked, the row, the domain rows and the notifications sent are
\* unchanged, and the request is answered 200.
C1_DuplicateShortCircuits ==
  [][ \A d \in Deliveries :
        ( /\ processWebhookAttempt(d)
          /\ Verified(d)
          /\ webhookEvent.exists /\ webhookEvent.processed )
        => ( /\ dl'[d].pc = "done" /\ dl'[d].http = 200
             /\ dl'[d].runs = dl[d].runs
             /\ UNCHANGED << webhookEvent, domain, sent >> ) ]_vars

\* a redelivery of a subscription-created event that was answered 200 without
\* a handler run, after the first delivery created the row
C1_Witness ==
  \E d \in Deliveries :
    /\ Done(d) /\ dl[d].http = 200 /\ dl[d].runs = 0 /\ dl[d].sig = "valid"
    /\ event.type = "customer.subscription.created"
    /\ subscription.exists /\ ~start.subscription.exists
    /\ webhookEvent.processed

\* C3: once the webhookEvent row has processed = true, no step of a delivery of
\* the event changes its processed or processingError field.
C3_ProcessedRecordFrozen ==
  [][ ( /\ webhookEvent.exists /\ webhookEvent.processed
        /\ \E d \in Deliveries : Deliver(d) )
      => ( /\ webhookEvent'.processed
           /\ webhookEvent'.processingError = webhookEvent.processingError ) ]_vars

\* C4: no step of a delivery whose signature header is missing or does not
\* verify changes the webhookEvent row, a domain row or the notifications sent,
\* and no handler runs for it, on any attempt.
C4_UnverifiedTouchesNothing ==
  [][ \A d \in Deliveries :
        ( Deliver(d) /\ dl'[d].sig \in { "invalid", "missing" } )
        => ( /\ UNCHANGED << webhookEvent, domain, sent >>
             /\ dl'[d].runs = 0 ) ]_vars

\* a delivery with a bad signature went through the whole retry loop and was
\* answered 400, and there is still no webhookEvent row
C4_Witness ==
  \E d \in Deliveries :
    /\ Done(d) /\ dl[d].sig = "invalid" /\ dl[d].http = 400
    /\ dl[d].attempt = MAX_RETRY_ATTEMPTS
    /\ env.secret /\ ~webhookEvent.exists

\* The rows one delivery of ev, served alone and with no transient failure,
\* leaves behind when it starts from the domain rows st; err: the error of
\* its attempts (Null: the handler returned).  canceledAt of a deleted
\* subscription is a clock reading and is left 0 here.
OnceOutcome(ev, st) ==
  LET same == [ err |-> Null, subscription |-> st.subscription,
                usageQuota |-> st.usageQuota, user |-> st.user ]
      limits == QuotaLimits(Plans[ev.priceId])
  IN CASE ev.type = "customer.subscription.created" ->
            IF ~ev.hasUserId THEN [ same EXCEPT !.err = "NoUserId" ]
            ELSE IF ev.priceId \notin DOMAIN Plans THEN [ same EXCEPT !.err = "NoPlan" ]
            ELSE IF st.subscription.exists THEN [ same EXCEPT !.err = "UniqueConstraint" ]
            ELSE [ same EXCEPT
                     !.subscription =
                        [ exists |-> TRUE, status |-> mapStripeStatus(ev.status),
                          planId |-> Plans[ev.priceId].name, userId |-> "u1",
                          currentPeriodEnd |-> "p1", canceledAt |-> 0, amount |-> 2999 ],
                     !.usageQuota =
                        WithQuotas(st.usageQuota, limits, { m \in Metrics : limits[m] # 0 }) ]
       [] ev.type = "customer.subscription.updated" ->
            IF ~st.subscription.exists THEN same
            ELSE [ same EXCEPT !.subscription =
                     [ st.subscription EXCEPT !.status = mapStripeStatus(ev.status),
                                              !.currentPeriodEnd = "p1",
                                              !.canceledAt = ev.canceledAt ] ]
       [] ev.type = "customer.subscription.deleted" ->
            IF ~st.subscription.exists THEN [ same EXCEPT !.err = "RecordNotFound" ]
            ELSE [ same EXCEPT !.subscription =
                     [ st.subscription EXCEPT !.status = "CANCELED", !.canceledAt = 0 ] ]
       [] ev.type = "invoice.payment_succeeded" ->
            IF ev.subRef = Null \/ ~st.subscription.exists \/ ~ev.periodEnd THEN same
            ELSE [ same EXCEPT !.subscription =
                     [ st.subscription EXCEPT !.currentPeriodEnd = "p1" ] ]
       [] ev.type = "customer.created" ->
            IF ev.hasUserId
            THEN [ same EXCEPT !.user = [ st.user EXCEPT !.stripeCustomerId = "cus_1" ] ]
            ELSE same
       [] ev.type = "customer.updated" ->
            IF ev.hasUserId /\ ev.hasEmail /\ st.user.stripeCustomerId = "cus_1"
            THEN [ same EXCEPT !.user = [ st.user EXCEPT !.email = "new" ] ]
            ELSE same
       [] OTHER -> same

\* a Subscription row without the clock reading a deleted event wrote
Timeless(row) ==
  IF event.type = "customer.subscription.deleted" /\ row.exists
  THEN [ row EXCEPT !.canceledAt = 0 ] ELSE row

\* the store equals what one delivery of the event would have left
FinalEqualsOnce ==
  LET o == OnceOutcome(event, start)
  IN /\ webhookEvent = [ exists |-> TRUE, processed |-> o.err = Null,
                         processingError |-> o.err ]
     /\ Timeless(subscription) = Timeless(o.subscription)
     /\ usageQuota = o.usageQuota
     /\ user = o.user

\* C2: when N deliveries of the same event id have all been answered, in any
\* interleaving of their store operations, the Subscription, UsageQuota and
\* user rows and the webhookEvent row are those one delivery would have left
\* (no call failing transiently).
C2_ConcurrentEqualsOnce ==
  ( /\ Quiescent
    /\ faults = << >>
    /\ \E d \in Deliveries : Done(d) /\ Verified(d) )
  => FinalEqualsOnce

Range(f) == { f[i] : i \in DOMAIN f }

\* the notifications the handlers send (all but the webhook error alert)
HandlerKinds == NotifKinds \ { "admin-webhook-error" }

\* C5: a verified delivery, served alone, whose handler threw on every attempt
\* it made ran the handler exactly MAX_RETRY_ATTEMPTS times and was answered
\* with the failure, and the webhookEvent row is left with processed = false
\* and processingError = the message of the last attempt (the failure upsert
\* itself not failing).
C5_RetryBudget ==
  \A d \in Deliveries :
    ( /\ Done(d) /\ Latest(d)
      /\ dl[d].attempt >= 1
      /\ dl[d].hfail = dl[d].runs /\ dl[d].runs = dl[d].attempt
      /\ "record" \notin Range(faults) )
    => ( /\ dl[d].attempt = MAX_RETRY_ATTEMPTS
         /\ dl[d].runs = MAX_RETRY_ATTEMPTS
         /\ dl[d].http = 400
         /\ webhookEvent.exists /\ ~webhookEvent.processed
         /\ webhookEvent.processingError = dl[d].lastError )

\* three handler runs failed, the first with a transient error and the last
\* with another message, which is the one the row keeps
C5_Witness ==
  \E d \in Deliveries :
    /\ Done(d) /\ Latest(d) /\ dl[d].http = 400
    /\ dl[d].runs = MAX_RETRY_ATTEMPTS /\ dl[d].hfail = MAX_RETRY_ATTEMPTS
    /\ faults = << "handler" >>
    /\ dl[d].lastError = "NoPlan"
    /\ webhookEvent.processingError = "NoPlan" /\ ~webhookEvent.processed

\* C6: a delivery whose signature does not verify is answered after exactly
\* one attempt, with no backoff delay.
C6_BadSignatureNotRetried ==
  \A d \in Deliveries :
    ( Done(d) /\ env.secret /\ dl[d].sig = "invalid" )
    => ( dl[d].attempt = 1 /\ dl[d].delays = << >> )

\* C7: with STRIPE_WEBHOOK_SECRET unset a delivery is answered after exactly
\* one attempt, with no backoff delay.
C7_MissingSecretNotRetried ==
  \A d \in Deliveries :
    ( Done(d) /\ ~env.secret /\ dl[d].sig # "missing" )
    => ( dl[d].attempt = 1 /\ dl[d].delays = << >> )

\* C8: for a subscription created / updated event whose provider status is not
\* one of the seven mapped values, the step that would write the Subscription
\* row raises an error instead and leaves the row as it was.
C8_UnmappedStatusRaises ==
  [][ \A d \in Deliveries :
        ( /\ createDatabaseSubscription(d) \/ applySubscriptionUpdate(d)
          /\ event.status \notin MappedStatuses )
        => ( dl'[d].pc = "onError" /\ UNCHANGED subscription ) ]_vars

\* C9: a subscription-updated event for a subscription with no local row
\* creates no Subscription row, changes no other domain row and sends no
\* handler notification; and when no call fails transiently no attempt fails
\* or is retried, every verified delivery is answered 200, and once all are
\* answered the webhookEvent row has processed = true and no error.
C9_UpdateBeforeCreateIsNoOp ==
  ( event.type = "customer.subscription.updated" /\ ~start.subscription.exists )
  => ( /\ subscription = NoRow
       /\ usageQuota = start.usageQuota
       /\ user = start.user
       /\ \A k \in HandlerKinds : sent[k] = 0
       /\ faults = << >> =>
            /\ sent["admin-webhook-error"] = 0
            /\ \A d \in Deliveries :
                 Verified(d) =>
                   /\ dl[d].err = Null /\ dl[d].attempt = 0 /\ dl[d].hfail = 0
                   /\ Done(d) => dl[d].http = 200
            /\ ( Quiescent /\ \E d \in Deliveries : Done(d) /\ Verified(d) )
                 => webhookEvent = [ exists |-> TRUE, processed |-> TRUE,
                                     processingError |-> Null ] )

\* the update arrived first, its handler ran once and the event is processed
C9_Witness ==
  /\ event.type = "customer.subscription.updated"
  /\ ~start.subscription.exists
  /\ \E d \in Deliveries : Done(d) /\ dl[d].runs = 1 /\ dl[d].http = 200
  /\ webhookEvent.processed /\ webhookEvent.processingError = Null
  /\ subscription = NoRow

\* C10: when every send of the notification service throws, no notification
\* call makes an attempt fail; and a delivery of an event whose handler has
\* nothing else to fail on (requests served one at a time, no call failing
\* transiently) is answered 200 on its first attempt and leaves
\* processed = true.
C10_NotificationIsolation ==
  env.sinkThrows =>
    /\ \A d \in Deliveries : dl[d].err # "SinkError" /\ dl[d].lastError # "SinkError"
    /\ ( faults = << >> /\ OnceOutcome(event, start).err = Null ) =>
         \A d \in Deliveries :
           ( Done(d) /\ Verified(d) ) =>
             /\ dl[d].http = 200 /\ dl[d].attempt = 0
             /\ Latest(d) => webhookEvent.exists /\ webhookEvent.processed

\* the welcome mail of a subscription-created event reached a sink that
\* throws, and the delivery was still answered 200 with the event processed
C10_Witness ==
  /\ env.sinkThrows
  /\ event.type = "customer.subscription.created"
  /\ sent["subscription-created"] = 1
  /\ \E d \in Deliveries : Done(d) /\ dl[d].runs = 1 /\ dl[d].http = 200
  /\ webhookEvent.processed

\* C11: over all attempts and redeliveries of one event id, each notification
\* a handler sends (subscription created, payment succeeded, payment failed,
\* cancellation, status transition) reaches its sink at most once.
C11_NotifiedAtMostOnce ==
  \A k \in HandlerKinds : sent[k] <= 1

\* C12: the webhookEvent row has processed = true only if no dependent
\* mutation of the event failed: no updateQuota of initializeUsageQuotas was
\* rejected, and a Subscription row the event created has the quota rows of
\* its plan.
C12_ProcessedOnlyAfterFullSuccess ==
  ( webhookEvent.exists /\ webhookEvent.processed )
  => ( /\ "quotas" \notin Range(faults)
       /\ ( /\ event.type = "customer.subscription.created"
            /\ subscription.exists /\ ~start.subscription.exists )
          => LET limits == QuotaLimits(Plans[event.priceId])
             IN usageQuota =
                  WithQuotas(start.usageQuota, limits, { m \in Metrics : limits[m] # 0 }) )

\* C13: after an attempt of a verified delivery (requests served one at a
\* time) the webhookEvent row shows the outcome of that attempt: processed =
\* true and no error if it returned, processed = false and the message of that
\* attempt if it threw.
C13_RecordReflectsLastAttempt ==
  \A d \in Deliveries :
    ( Verified(d) /\ Latest(d) )
    => ( /\ ( Done(d) /\ dl[d].http = 200 )
            => webhookEvent = [ exists |-> TRUE, processed |-> TRUE,
                                processingError |-> Null ]
         /\ ( /\ dl[d].attempt >= 1
              /\ \/ dl[d].pc = "attempt"
                 \/ Done(d) /\ dl[d].http = 400 )
            => webhookEvent = [ exists |-> TRUE, processed |-> FALSE,
                                processingError |-> dl[d].lastError ] )

\* C14: within a delivery, the step of a verified delivery that begins a
\* backoff delay has written the error of the failed attempt to the
\* webhookEvent row (the failure upsert itself not being rejected), and the
\* step that lets the handler run once more has reset the row to
\* processed = false, processingError = null.
C14_RecordedBeforeDelayResetBeforeHandler ==
  [][ \A d \in Deliveries :
        /\ ( /\ Verified(d)
             /\ Len(dl'[d].delays) > Len(dl[d].delays)
             /\ faults' = faults )
           => ( /\ webhookEvent'.exists
                /\ webhookEvent'.processingError = dl'[d].lastError
                /\ dl'[d].lastError # Null )
        /\ ( dl'[d].runs > dl[d].runs )
           => ( /\ dl[d].pc = "upsert" /\ dl'[d].pc = "handle"
                /\ webhookEvent' = [ exists |-> TRUE, processed |-> FALSE,
                                     processingError |-> Null ] ) ]_vars

\* the second attempt of a delivery is about to run the handler: the first
\* attempt failed, one delay was taken, and the row has been reset
C14_Witness ==
  \E d \in Deliveries :
    /\ dl[d].pc = "handle" /\ dl[d].attempt = 1 /\ dl[d].runs = 2
    /\ dl[d].delays = << RETRY_DELAY >>
    /\ dl[d].lastError = "NoPlan"
    /\ webhookEvent = [ exists |-> TRUE, processed |-> FALSE, processingError |-> Null ]

\* C15: the delays a delivery has slept are RETRY_DELAY, 2 x RETRY_DELAY, ...
\* in this order, one after each failed attempt but the last: none before the
\* first attempt, none after the MAX_RETRY_ATTEMPTS-th failure, so a delivery
\* that failed every attempt slept MAX_RETRY_ATTEMPTS - 1 times.
C15_BackoffSchedule ==
  \A d \in Deliveries :
    /\ dl[d].delays = [ k \in 1..Len(dl[d].delays) |-> k * RETRY_DELAY ]
    /\ Len(dl[d].delays) =
         IF dl[d].attempt = MAX_RETRY_ATTEMPTS
         THEN MAX_RETRY_ATTEMPTS - 1 ELSE dl[d].attempt
    /\ ( Done(d) /\ dl[d].http = 400 /\ dl[d].sig # "missing" )
       => dl[d].delays = << RETRY_DELAY, 2 * RETRY_DELAY >>

\* a verified delivery whose handler failed three times slept 1000 ms and
\* 2000 ms and was answered 400
C15_Witness ==
  \E d \in Deliveries :
    /\ Done(d) /\ Verified(d) /\ dl[d].http = 400
    /\ dl[d].hfail = MAX_RETRY_ATTEMPTS
    /\ dl[d].delays = << 1000, 2000 >>

\* C16: an event whose type is not in STRIPE_WEBHOOK_EVENTS changes no domain
\* row and sends no handler notification; and when no call fails transiently
\* no attempt of a verified delivery fails or is retried, every such delivery
\* is answered 200, and once all are answered the webhookEvent row has
\* processed = true and no error.
C16_UnknownTypeIsNoOp ==
  ( event.type \notin STRIPE_WEBHOOK_EVENTS )
  => ( /\ subscription = start.subscription
       /\ usageQuota = start.usageQuota
       /\ user = start.user
       /\ \A k \in HandlerKinds : sent[k] = 0
       /\ \A d \in Deliveries : dl[d].pc \in { "idle", "attempt", "upsert", "handle",
                                               "mark", "onError", "done" }
       /\ faults = << >> =>
            /\ sent["admin-webhook-error"] = 0
            /\ \A d \in Deliveries :
                 Verified(d) =>
                   /\ dl[d].err = Null /\ dl[d].attempt = 0 /\ dl[d].hfail = 0
                   /\ Done(d) => dl[d].http = 200
            /\ ( Quiescent /\ \E d \in Deliveries : Done(d) /\ Verified(d) )
                 => webhookEvent = [ exists |-> TRUE, processed |-> TRUE,
                                     processingError |-> Null ] )

\* a charge.refunded event went through the default branch and is processed
C16_Witness ==
  /\ event.type = "charge.refunded"
  /\ \E d \in Deliveries : Done(d) /\ dl[d].runs = 1 /\ dl[d].http = 200
  /\ webhookEvent.processed /\ webhookEvent.processingError = Null
  /\ start.subscription.exists /\ subscription = start.subscription

\* C17: a request is answered with a failure status exactly when it had no
\* signature header or processStripeWebhook threw after its last attempt
\* (which is how a bad signature and a missing secret end, too); every other
\* request is answered 200: one whose attempt returned, be it the first, the
\* second or the third, and so a duplicate of a processed event.
C17_FailureStatusIffExhausted ==
  \A d \in Deliveries :
    Done(d) =>
      /\ dl[d].http \in { 200, 400 }
      /\ dl[d].http = 400 <=>
           \/ dl[d].sig = "missing"
           \/ dl[d].attempt = MAX_RETRY_ATTEMPTS /\ dl[d].lastError # Null
      /\ dl[d].http = 200 <=>
           /\ Verified(d)
           /\ dl[d].attempt < MAX_RETRY_ATTEMPTS
           /\ dl[d].err = Null
      /\ ~Verified(d) => dl[d].http = 400

\* a delivery answered 200 after its first two attempts failed
C17_Witness ==
  \E d \in Deliveries :
    /\ Done(d) /\ dl[d].http = 200
    /\ dl[d].attempt = MAX_RETRY_ATTEMPTS - 1
    /\ dl[d].delays = << 1000, 2000 >>

\* the verified deliveries whose attempts were all used up
Exhausted == { d \in Deliveries : Done(d) /\ Verified(d) /\ dl[d].http = 400 }

\* C18: with an operator address configured, the operator notifications sent
\* for failures are as many as the deliveries whose attempts were all used up:
\* one for each, sent when its last attempt has failed and not before.
C18_TerminalFailureNotifiedOnce ==
  env.admin => sent["admin-webhook-error"] = Cardinality(Exhausted)

\* the handler of delivery d is running again after an earlier run of it
\* returned without an error
Replaying(d) == dl[d].pc \in HandlerPcs /\ dl[d].runs - dl[d].hfail >= 2

\* C19: a step of a handler that runs again after an earlier run of it
\* returned (requests served one at a time, the step's own call not rejected)
\* does not throw and leaves the Subscription, UsageQuota and user rows as
\* the earlier run left them.
C19_ReplayConverges ==
  [][ \A d \in Deliveries :
        ( Deliver(d) /\ Replaying(d) /\ faults' = faults )
        => ( dl'[d].pc # "onError" /\ UNCHANGED domain ) ]_vars

\* the event types whose handlers reconcile a subscription object
SubscriptionEvents ==
  { "customer.subscription.created", "customer.subscription.updated",
    "customer.subscription.deleted" }

\* C20: while an event of another type than subscription created / updated /
\* deleted is processed (invoice, customer, checkout or unrecognised), no
\* step changes the status of the Subscription row.
C20_StatusOnlyFromSubscriptionEvents ==
  [][ ( event.type \notin SubscriptionEvents )
      => ( subscription'.status = subscription.status ) ]_vars

C22_UnlinkedCreatedFails ==
  ( /\ event.type = "customer.subscription.created"
    /\ ~event.hasUserId \/ event.priceId \notin DOMAIN Plans )
  => ( /\ subscription = start.subscription
       /\ usageQuota = start.usageQuota
       /\ \A k \in HandlerKinds : sent[k] = 0
       /\ ~webhookEvent.processed
       /\ \A d \in Deliveries : ( Done(d) /\ Verified(d) ) => dl[d].http = 400
       /\ ( /\ Quiescent /\ "record" \notin Range(faults)
            /\ \E d \in Deliveries : Done(d) /\ Verified(d) )
          => ( webhookEvent.exists /\ webhookEvent.processingError # Null ) )

\* the notifications handleStatusChange sends
StatusKinds == { "slack-conversions", "slack-billing-alerts", "admin-about-to-cancel" }

\* C23: no domain row is written before a delivery has passed the lookup of
\* the webhookEvent row, and a handler notification is sent only after the
\* handler's writes for the event: the Subscription row exists when the
\* subscription-created mail is sent, is CANCELED when the cancellation mail
\* is sent, has the event's status when a status notification is sent, and
\* has the invoice's period end when the payment confirmation is sent.
C23_MutateBeforeNotify ==
  /\ ( \A d \in Deliveries : dl[d].runs = 0 )
     => ( subscription = start.subscription /\ usageQuota = start.usageQuota
          /\ user = start.user /\ \A k \in HandlerKinds : sent[k] = 0 )
  /\ sent["subscription-created"] > 0 => subscription.exists
  /\ sent["subscription-canceled"] > 0 => subscription.status = "CANCELED"
  /\ ( /\ event.type = "customer.subscription.updated"
       /\ \E k \in StatusKinds : sent[k] > 0 )
     => subscription.status = mapStripeStatus(event.status)
  /\ ( /\ event.type = "invoice.payment_succeeded" /\ event.periodEnd
       /\ sent["payment-succeeded"] > 0 )
     => subscription.currentPeriodEnd = "p1"

\* C24: while a subscription-updated event is processed (requests served one
\* at a time), a step sends a status notification only if the status stored
\* before it differs from the mapped status of the event: the conversion
\* notice only from TRIALING to ACTIVE, a billing alert only to PAST_DUE or
\* UNPAID, the operator warning only to UNPAID; a replay after the update was
\* applied finds the two equal and sends none.
C24_StatusNotificationOnlyOnChange ==
  [][ ( event.type = "customer.subscription.updated" )
      => LET old == subscription.status
             new == mapStripeStatus(event.status)
         IN /\ ( \E k \in StatusKinds : sent'[k] > sent[k] )
               => ( subscription.exists /\ old # new )
            /\ sent'["slack-conversions"] > sent["slack-conversions"]
               => ( old = "TRIALING" /\ new = "ACTIVE" )
            /\ sent'["slack-billing-alerts"] > sent["slack-billing-alerts"]
               => new \in { "PAST_DUE", "UNPAID" }
            /\ sent'["admin-about-to-cancel"] > sent["admin-about-to-cancel"]
               => new = "UNPAID" ]_vars

\* the update to PAST_DUE was applied and alerted once, the write of
\* processed = true was rejected, and the replay sent no second alert
C24_Witness ==
  \E d \in Deliveries :
    /\ event.type = "customer.subscription.updated" /\ event.status = "past_due"
    /\ start.subscription.status = "ACTIVE"
    /\ faults = << "mark" >>
    /\ Done(d) /\ dl[d].runs = 2 /\ dl[d].http = 200
    /\ subscription.status = "PAST_DUE"
    /\ sent["slack-billing-alerts"] = 1

\* C25: for an invoice.payment_succeeded or invoice.payment_failed event
\* whose invoice names no subscription, or names one that has no local row,
\* no domain row changes and no handler notification is sent; and when no
\* call is rejected, no attempt fails, no failure alert is sent, every verified
\* request is answered 200 and the event ends processed = true without error.
C25_InvoiceWithoutSubscriptionIsNoOp ==
  ( /\ event.type \in { "invoice.payment_succeeded", "invoice.payment_failed" }
    /\ ( event.subRef = Null \/ ~start.subscription.exists ) )
  => ( /\ subscription = start.subscription
       /\ usageQuota = start.usageQuota
       /\ user = start.user
       /\ \A k \in HandlerKinds : sent[k] = 0
       /\ \A d \in Deliveries : dl[d].pc # "extend"
       /\ faults = << >> =>
            /\ sent = NoneSent
            /\ \A d \in Deliveries :
                 Verified(d) =>
                   /\ dl[d].err = Null /\ dl[d].attempt = 0 /\ dl[d].hfail = 0
                   /\ Done(d) => dl[d].http = 200
            /\ ( Quiescent /\ \E d \in Deliveries : Done(d) /\ Verified(d) )
                 => webhookEvent = [ exists |-> TRUE, processed |-> TRUE,
                                     processingError |-> Null ] )

\* a failed payment of a subscription with no local row was handled once and
\* the event is processed
C25_Witness ==
  /\ event.type = "invoice.payment_failed" /\ event.subRef = "sub_1"
  /\ ~start.subscription.exists
  /\ \E d \in Deliveries : Done(d) /\ dl[d].runs = 1 /\ dl[d].http = 200
  /\ webhookEvent.processed /\ webhookEvent.processingError = Null
  /\ subscription = NoRow /\ sent = NoneSent

\* C28: for a subscription-deleted event of a subscription with no local
\* row, every run of the handler raises, a verified request is answered with
\* the failure after MAX_RETRY_ATTEMPTS attempts, no row is created, no
\* cancellation notification is sent, the event is never processed = true and,
\* once all requests are answered (no failure upsert having been rejected),
\* its row carries an error; when the row exists, it is either untouched or
\* CANCELED with a canceledAt set, and it is CANCELED with canceledAt set once
\* a run of the handler has got past the update.
C28_DeletedWithoutRowFails ==
  ( event.type = "customer.subscription.deleted" )
  => /\ ~start.subscription.exists =>
          /\ subscription = NoRow
          /\ usageQuota = start.usageQuota /\ user = start.user
          /\ \A k \in HandlerKinds : sent[k] = 0
          /\ ~webhookEvent.processed
          /\ \A d \in Deliveries :
               /\ dl[d].pc # "mark"
               /\ dl[d].pc \notin HandlerPcs => dl[d].hfail = dl[d].runs
               /\ ( Done(d) /\ Verified(d) )
                    => ( dl[d].http = 400 /\ dl[d].attempt = MAX_RETRY_ATTEMPTS )
          /\ ( /\ Quiescent /\ "record" \notin Range(faults)
               /\ \E d \in Deliveries : Done(d) /\ Verified(d) )
               => ( webhookEvent.exists /\ webhookEvent.processingError # Null )
     /\ start.subscription.exists =>
          /\ \/ subscription = start.subscription
             \/ /\ subscription.status = "CANCELED" /\ subscription.canceledAt # 0
                /\ subscription = [ start.subscription EXCEPT
                                      !.status = "CANCELED",
                                      !.canceledAt = subscription.canceledAt ]
          /\ ( \/ webhookEvent.processed
               \/ \E d \in Deliveries : dl[d].runs > dl[d].hfail /\ dl[d].pc # "handle"
               \/ sent["subscription-canceled"] > 0 )
               => ( subscription.status = "CANCELED" /\ subscription.canceledAt # 0 )

\* the deleted event of an unknown subscription used up its three attempts,
\* each of which ran the handler, and its row carries the error
C28_Witness ==
  /\ event.type = "customer.subscription.deleted"
  /\ ~start.subscription.exists
  /\ \E d \in Deliveries :
       /\ Done(d) /\ dl[d].http = 400
       /\ dl[d].runs = MAX_RETRY_ATTEMPTS /\ dl[d].hfail = MAX_RETRY_ATTEMPTS
  /\ webhookEvent.exists /\ ~webhookEvent.processed
  /\ webhookEvent.processingError = "RecordNotFound"
  /\ subscription = NoRow

\* C26: the step that answers an admin retry of a failed row (processed =
\* false with an error, no delivery in flight) with success has cleared the
\* error and invoked the pipeline again: a run of the handler has started for
\* the event.
C26_RetryReinvokesPipeline ==
  [][ ( /\ admin.pc = "retry" /\ admin'.pc = "idle" /\ admin'.http = 200
        /\ ~webhookEvent.processed /\ webhookEvent.processingError # Null
        /\ Quiescent )
      => ( /\ webhookEvent'.processingError = Null
           /\ \E d \in Deliveries : dl'[d].runs > dl[d].runs ) ]_vars

\* C27: in every state, whatever the order of the steps of the deliveries and
\* of the admin retry and cleanup requests, a webhookEvent row with processed =
\* true has no processingError.
C27_ProcessedHasNoError ==
  ( webhookEvent.exists /\ webhookEvent.processed )
  => webhookEvent.processingError = Null

\* the rows of the webhookEvent table: processed and createdAt of each
Table ==
  otherEvents \cup
    ( IF webhookEvent.exists
      THEN { [ id |-> "evt_1", processed |-> webhookEvent.processed,
               createdAt |-> createdAt ] }
      ELSE { } )

\* C29: a cleanup request answered for olderThanDays days removes from the
\* webhookEvent table exactly the rows that were processed = true with
\* createdAt before the cutoff (the time of the call less olderThanDays): every
\* row with processed = false and every row created at or after the cutoff
\* stays as it was; the domain rows, the notifications and the deliveries in
\* flight are untouched; and the count answered is the number of rows removed.
C29_CleanupDeletesExactlyOldProcessed ==
  [][ ( admin'.op = "cleanup" /\ admin'.calls = admin.calls + 1 )
      => LET cutoff == cutoffDate(clock', admin'.olderThanDays)
         IN /\ Table' \subseteq Table
            /\ \A r \in Table :
                 ( r \in Table' ) <=> ~( r.processed /\ r.createdAt < cutoff )
            /\ webhookEvent' \in { webhookEvent, NoRecord }
            /\ UNCHANGED << domain, sent, dl >>
            /\ admin'.http = 200
            /\ admin'.deletedCount = Cardinality(Table) - Cardinality(Table') ]_vars

\* a cleanup for one day, two days after the event was processed, removed its
\* row and the two older processed rows, and left the failed one
C29_Witness ==
  /\ admin.op = "cleanup" /\ admin.http = 200
  /\ admin.olderThanDays = 1 /\ admin.deletedCount = 3
  /\ webhookEvent = NoRecord
  /\ otherEvents = { r \in OlderEvents : ~r.processed }
  /\ \E d \in Deliveries : Done(d) /\ dl[d].http = 200 /\ dl[d].runs = 1
  /\ subscription.exists

\* C30: every request handed to processStripeWebhook is answered (each awaited
\* call returning or throwing); an answered request takes no further step, a
\* request answered with success of a verified delivery made fewer failed
\* attempts than MAX_RETRY_ATTEMPTS and its last run of the handler did not
\* fail; no request makes more than MAX_RETRY_ATTEMPTS attempts; and the error
\* the catch of the loop keeps, and throws after the last attempt, is the one
\* the attempt threw, also when recording the failure itself failed.
C30_TerminatesWithLastError ==
  /\ \A d \in Deliveries : ( dl[d].pc = "attempt" ) ~> Done(d)
  /\ [] ( \A d \in Deliveries :
            /\ dl[d].attempt <= MAX_RETRY_ATTEMPTS /\ dl[d].runs <= MAX_RETRY_ATTEMPTS
            /\ dl[d].pc \notin { "idle", "done" } => dl[d].attempt < MAX_RETRY_ATTEMPTS
            /\ ( Done(d) /\ dl[d].http = 200 )
                 => ( /\ dl[d].attempt < MAX_RETRY_ATTEMPTS
                      /\ dl[d].runs <= dl[d].attempt + 1
                      /\ dl[d].hfail <= dl[d].attempt )
            /\ ( Done(d) /\ dl[d].http = 400 /\ dl[d].sig # "missing" )
                 => ( dl[d].attempt = MAX_RETRY_ATTEMPTS /\ dl[d].lastError # Null ) )
  /\ [][ \A d \in Deliveries :
           /\ Done(d) => dl'[d] = dl[d]
           /\ ( dl[d].pc = "onError" /\ dl'[d].pc # "onError" )
                => ( /\ dl'[d].lastError = dl[d].err
                     /\ dl'[d].attempt = dl[d].attempt + 1
                     /\ dl'[d].pc = IF dl'[d].attempt < MAX_RETRY_ATTEMPTS
                                    THEN "attempt" ELSE "done" ) ]_vars

\* the failure upsert of an attempt was rejected, and the request was still
\* answered with the error of its third attempt
C30_Witness ==
  \E d \in Deliveries :
    /\ Done(d) /\ dl[d].http = 400 /\ Verified(d)
    /\ dl[d].attempt = MAX_RETRY_ATTEMPTS
    /\ faults = << "record" >>
    /\ event.type = "customer.subscription.deleted"
    /\ dl[d].lastError = "RecordNotFound"

====
